---- MODULE Spec2Model ----
(***************************************************************************)
(* Model of the interview session state machine of agents/persona.py:      *)
(* PersonaAgent.process_user_response with its helpers, the RouterAgent    *)
(* and GeneratorAgent fallbacks, and the Redis entry session_state:{id}    *)
(* of one session_id.                                                      *)
(*                                                                         *)
(* A conversation turn is identified by its timestamp; the texts of the    *)
(* question and the answer are not kept in the history entries.  Time is   *)
(* logical and relative to the creation of the stored entry: created_at is *)
(* 0 and the clock ticks once per turn written to the entry, so timestamps *)
(* order the turns of an entry as time.time() does.                        *)
(***************************************************************************)
EXTENDS Naturals, Sequences, FiniteSets, TLC

VARIABLES
    topic_graph,    \* the topic_graph argument of the interview (a list of topics)
    store,          \* the Redis value of session_state:{session_id}, or None
    initial_state,  \* what _initialize_session_state returned in the last call, or None
    result,         \* what the last process_user_response call returned, or None
    clock,          \* logical time since the stored entry was created
    expired,        \* the TTL has dropped an entry of this session
    calls,          \* the model calls of the last process_user_response call, in order
    durable,        \* the SessionState row of the session in PostgreSQL, or None
    durable_writes, \* number of commits that wrote that row
    persist_result, \* what the last persist_final_state_to_postgresql call returned, or None
    inflight,       \* per caller: the process_user_response call it has under way
    plan,           \* what the last create_interview_plan_with_ai call returned or raised
    plan_calls,     \* the outcomes of the generate_content calls of that call, in order
    evaluation,     \* what the last evaluate_interview call returned, or None
    interview_turn, \* what the last conduct_interview_turn call returned or raised, or None
    tracker,        \* the Redis value of session:{session_id} of the SessionTracker, or None
    tracker_ttl,    \* seconds until Redis drops that key
    tracker_clock,  \* number of turns added to that session since it was created
    tracker_result  \* what the last SessionTracker call returned, or None

session_vars == <<topic_graph, store, initial_state, result, clock, expired, calls>>

durable_vars == <<durable, durable_writes, persist_result>>

plan_vars == <<plan, plan_calls>>

tracker_vars == <<tracker, tracker_ttl, tracker_clock, tracker_result>>

\* the state of the agents beside the PersonaAgent and the plan builder
agent_vars == <<evaluation, interview_turn, tracker_vars>>

vars == <<session_vars, durable_vars, inflight, plan_vars, agent_vars>>

\* Python's None / an absent Redis key.
None == [absent |-> TRUE]

\* cap on the logical clock (number of turns that append to the history)
MaxTurns == 11

\* cap on the turns written to an entry where the caller may change the graph
MismatchTurns == 2

\* cap on the turns written to an entry where Redis may fail
FaultTurns == 2

\* caps on the turns written to an entry and on the commits where the final
\* state is persisted
DurableTurns == 2

MaxPersists == 2

\* cap on the turns written to an entry by overlapping calls
ConcurrentTurns == 2

\* the requests that may be served at the same time for the session
Callers == {"c1", "c2"}

\* persona.py:452  "Keep only last 10 turns"
HistoryBound == 10

Range(s) == {s[i] : i \in 1..Len(s)}

(***************************************************************************)
(* Topic graphs.                                                           *)
(***************************************************************************)
Topic(id, deps) == [topic_id |-> id, dependencies |-> deps]

\* The empty graph and graphs of one or two topics: without dependencies,
\* a dependency on itself, a first topic that depends on the second.
SmallGraphs ==
    { << >>,
      <<Topic("A", {})>>,
      <<Topic("A", {"A"})>>,
      <<Topic("B", {"A"}), Topic("A", {})>> }

\* Three-topic graphs: the chain A, B, C; declaration order against
\* alphabetical order; dependencies against declaration order; a cycle; a
\* dependency on an id that is not in the graph.
LargeGraphs ==
    { <<Topic("A", {}), Topic("B", {"A"}), Topic("C", {"A", "B"})>>,
      <<Topic("C", {}), Topic("B", {}), Topic("A", {})>>,
      <<Topic("A", {}), Topic("C", {"B"}), Topic("B", {"A"})>>,
      <<Topic("A", {}), Topic("B", {"C"}), Topic("C", {"B"})>>,
      <<Topic("A", {}), Topic("B", {"X"}), Topic("C", {})>> }

Graphs == SmallGraphs \cup LargeGraphs

TopicIdsOf(g) == {g[i].topic_id : i \in 1..Len(g)}

(***************************************************************************)
(* The model calls.  A call raises, returns text that json.loads rejects,  *)
(* or returns a JSON object; the object may lack any key.                  *)
(***************************************************************************)
NextActions ==
    {"ACKNOWLEDGE_AND_TRANSITION", "GENERATE_FOLLOW_UP",
     "REDIRECT_TO_TOPIC", "ANSWER_CLARIFICATION"}

\* The objects the Router's model call may return: every action of the
\* output schema with either flag, an action outside the schema, an object
\* without goal_achieved and one without next_action.
RouterReplies ==
    {[analysis_summary |-> "summary", goal_achieved |-> ga, next_action |-> a] :
        ga \in BOOLEAN, a \in NextActions}
    \cup {[analysis_summary |-> "summary", goal_achieved |-> FALSE,
           next_action |-> "PROBE_HESITATION"],
          [analysis_summary |-> "summary", next_action |-> "GENERATE_FOLLOW_UP"],
          [analysis_summary |-> "summary", goal_achieved |-> TRUE]}

GeneratorReplies ==
    { [internal_thought |-> "thought", response_text |-> "generated question"],
      [internal_thought |-> "thought", response_text |-> ""],
      [internal_thought |-> "thought"] }

ModelOutputs(replies) ==
    {[kind |-> "raise"], [kind |-> "unparseable"]}
    \cup {[kind |-> "parsed", json |-> j] : j \in replies}

\* the Router's fallback decision reporting the goal as achieved
RouterFallback_GoalAchieved ==
    [analysis_summary |-> "Error analyzing response",
     goal_achieved |-> TRUE,
     next_action |-> "GENERATE_FOLLOW_UP",
     router_latency_ms |-> 0,
     error |-> TRUE]

RouterFallback ==
    [analysis_summary |-> "Error analyzing response",
     goal_achieved |-> FALSE,
     next_action |-> "GENERATE_FOLLOW_UP",
     router_latency_ms |-> 0,
     error |-> TRUE]

GeneratorFallbackText ==
    "I appreciate your response. Let me ask a follow-up question to better understand your approach."

GeneratorFallback ==
    [internal_thought |-> "Error generating response, using fallback",
     response_text |-> GeneratorFallbackText,
     generator_latency_ms |-> 0,
     error |-> TRUE]

\* analyze_response letting the failure through: no decision is made
AnalyzeResponse_NoDecision(out) ==
    IF out.kind = "parsed" THEN out.json
    ELSE [analysis_summary |-> "Error analyzing response", error |-> TRUE]

\* RouterAgent.analyze_response.  The measured latency and the timestamp
\* that it adds to a parsed reply are not kept.
AnalyzeResponse(out) ==
    IF out.kind = "parsed" THEN out.json ELSE RouterFallback

\* GeneratorAgent.generate_response.  The measured latency and the timestamp
\* that it adds to a parsed reply are not kept.
GenerateResponse(out) ==
    IF out.kind = "parsed" THEN out.json ELSE GeneratorFallback

(***************************************************************************)
(* PersonaAgent helpers.                                                   *)
(***************************************************************************)
\* dict.get(key, default)
Get(d, key, default) == IF key \in DOMAIN d THEN d[key] ELSE default

\* PersonaAgent._get_session_state: the stored value, None when the key is
\* absent and None when the Redis read raises.
GetSessionState(stored, get_ok) == IF get_ok THEN stored ELSE None

\* _initialize_session_state starting with the first topic already covered
InitializeSessionState_Covered(g, now) ==
    [current_topic_id |-> IF Len(g) > 0 THEN g[1].topic_id ELSE "topic_01",
     covered_topic_ids |-> IF Len(g) > 0 THEN <<g[1].topic_id>> ELSE << >>,
     conversation_history |-> << >>,
     topic_progress |->
        [id \in TopicIdsOf(g) |->
            [status |-> "pending", attempts |-> 0, goal_achieved |-> FALSE]],
     created_at |-> now,
     last_updated |-> now]

\* PersonaAgent._initialize_session_state
InitializeSessionState(g, now) ==
    [current_topic_id |-> IF Len(g) > 0 THEN g[1].topic_id ELSE "topic_01",
     covered_topic_ids |-> << >>,
     conversation_history |-> << >>,
     topic_progress |->
        [id \in TopicIdsOf(g) |->
            [status |-> "pending", attempts |-> 0, goal_achieved |-> FALSE]],
     created_at |-> now,
     last_updated |-> now]

\* _get_current_topic falling back to the first topic of the graph
GetCurrentTopic_First(g, topic_id) ==
    IF Len(g) = 0 THEN None
    ELSE IF \E i \in 1..Len(g) : g[i].topic_id = topic_id
    THEN g[CHOOSE i \in 1..Len(g) :
                /\ g[i].topic_id = topic_id
                /\ \A j \in 1..(i - 1) : g[j].topic_id # topic_id]
    ELSE g[1]

\* PersonaAgent._get_current_topic: the first topic with that id, or None
GetCurrentTopic(g, topic_id) ==
    IF \E i \in 1..Len(g) : g[i].topic_id = topic_id
    THEN g[CHOOSE i \in 1..Len(g) :
                /\ g[i].topic_id = topic_id
                /\ \A j \in 1..(i - 1) : g[j].topic_id # topic_id]
    ELSE None

\* _mark_topic_completed assigning the list instead of appending to it
MarkTopicCompleted_Overwrite(session_state, topic_id) ==
    [session_state EXCEPT !.covered_topic_ids = <<topic_id>>]

\* PersonaAgent._mark_topic_completed
MarkTopicCompleted(session_state, topic_id) ==
    LET covered == session_state.covered_topic_ids
        progress == session_state.topic_progress
    IN [session_state EXCEPT
          !.covered_topic_ids =
              IF topic_id \in Range(covered) THEN covered
              ELSE Append(covered, topic_id),
          !.topic_progress =
              IF topic_id \in DOMAIN progress
              THEN [progress EXCEPT ![topic_id] =
                        [@ EXCEPT !.status = "completed", !.goal_achieved = TRUE]]
              ELSE progress]

\* _can_start_topic without the dependency check
CanStartTopic_Always(topic, covered_topic_ids) == TRUE

\* PersonaAgent._can_start_topic
CanStartTopic(topic, covered_topic_ids) ==
    \A dep \in topic.dependencies : dep \in Range(covered_topic_ids)

\* the condition of the loop of _advance_to_next_topic on the topic at index i
IsNextTopic(session_state, g, i) ==
    /\ g[i].topic_id \notin Range(session_state.covered_topic_ids)
    /\ g[i].topic_id # session_state.current_topic_id
    /\ CanStartTopic(g[i], session_state.covered_topic_ids)

\* _advance_to_next_topic leaving the current topic as it is
AdvanceToNextTopic_Stay(session_state, g) == session_state

\* PersonaAgent._advance_to_next_topic: the first topic of the list that
\* passes the condition becomes current; with none, the state is as it was.
AdvanceToNextTopic(session_state, g) ==
    IF \E i \in 1..Len(g) : IsNextTopic(session_state, g, i)
    THEN [session_state EXCEPT !.current_topic_id =
            g[CHOOSE i \in 1..Len(g) :
                /\ IsNextTopic(session_state, g, i)
                /\ \A j \in 1..(i - 1) : ~IsNextTopic(session_state, g, j)].topic_id]
    ELSE session_state

\* PersonaAgent._generate_simple_response; the topics of the model carry no
\* topic_name and no goal, so the redirect text is built from the defaults
\* of current_topic.get.
GenerateSimpleResponse(action, current_topic) ==
    IF action = "REDIRECT_TO_TOPIC"
    THEN "That's an interesting point. Let's focus back on the current topic. "
    ELSE IF action = "ANSWER_CLARIFICATION"
    THEN "I'm here to help clarify any questions you have about the interview process or the scenario we're discussing."
    ELSE "Thank you for that response. Let me ask a follow-up question."

\* history[:HistoryBound], the oldest turns instead of the latest
LastTurns_Oldest(history) ==
    IF Len(history) > HistoryBound THEN SubSeq(history, 1, HistoryBound)
    ELSE history

\* history[-HistoryBound:]
LastTurns(history) ==
    IF Len(history) > HistoryBound
    THEN SubSeq(history, Len(history) - HistoryBound + 1, Len(history))
    ELSE history

\* PersonaAgent._update_conversation_history
UpdateConversationHistory(session_state, now) ==
    [session_state EXCEPT
        !.conversation_history = LastTurns(Append(@, [timestamp |-> now])),
        !.last_updated = now]

\* the except branch of process_user_response
Failure(error) ==
    [success |-> FALSE, error |-> error, fallback_response |-> GeneratorFallbackText]

\* step 5 advancing on every turn that is not a follow-up
GoalAchieved_Action(router_result) ==
    \/ Get(router_result, "goal_achieved", FALSE)
    \/ Get(router_result, "next_action", "") \notin {"GENERATE_FOLLOW_UP", ""}

\* Step 5: router_result.get("goal_achieved", False)
GoalAchieved(router_result) == Get(router_result, "goal_achieved", FALSE)

\* Step 6 calls the Generator only for these two actions; a turn that does
\* not call it has no Generator outcome.
UsesGenerator(router_result) ==
    /\ "next_action" \in DOMAIN router_result
    /\ router_result.next_action \in {"GENERATE_FOLLOW_UP", "ACKNOWLEDGE_AND_TRANSITION"}

GeneratorOutputsFor(router_result) ==
    IF UsesGenerator(router_result) THEN ModelOutputs(GeneratorReplies)
    ELSE {[kind |-> "not called"]}

(***************************************************************************)
(* PersonaAgent.process_user_response, steps 1 to 8, as a function of the  *)
(* stored entry, the graph, the outcomes of the two model calls and of the *)
(* two Redis calls, and the time.  It yields the returned result, the      *)
(* state _initialize_session_state made (None if the state was loaded),    *)
(* the value written to Redis (None if nothing was written) and the calls  *)
(* of the two agents it made, each with the outcome of the model call and  *)
(* what the agent returned.                                                *)
(***************************************************************************)
AgentCall(agent, out, returned) ==
    [agent |-> agent, outcome |-> out.kind, returned |-> returned]

\* process_user_response saving the state right after step 5, before the reply
\* is made
Turn_SavesBeforeReply(stored, g, router_out, generator_out, get_ok, set_ok, time) ==
    LET loaded == GetSessionState(stored, get_ok)
        now == IF loaded = None THEN 0 ELSE time
        made == IF loaded = None THEN InitializeSessionState(g, now) ELSE None
        state1 == IF loaded = None THEN made ELSE loaded
        current_topic == GetCurrentTopic(g, state1.current_topic_id)
        router_result == AnalyzeResponse(router_out)
        state5 == IF GoalAchieved(router_result)
                  THEN AdvanceToNextTopic(
                           MarkTopicCompleted(state1, current_topic.topic_id), g)
                  ELSE state1
        use_generator == UsesGenerator(router_result)
        generator_result == GenerateResponse(generator_out)
        response_text ==
            IF use_generator THEN generator_result.response_text
            ELSE GenerateSimpleResponse(router_result.next_action, current_topic)
        state7 == UpdateConversationHistory(state5, now)
        router_call == AgentCall("router", router_out, router_result)
        agent_calls ==
            IF use_generator
            THEN <<router_call, AgentCall("generator", generator_out, generator_result)>>
            ELSE <<router_call>>
    IN  IF current_topic = None
        THEN [result |-> Failure("topic not found"), made |-> made,
              written |-> None, calls |-> << >>]
        ELSE IF "next_action" \notin DOMAIN router_result
        THEN [result |-> Failure("KeyError next_action"), made |-> made,
              written |-> IF set_ok THEN state5 ELSE None, calls |-> <<router_call>>]
        ELSE IF use_generator /\ "response_text" \notin DOMAIN generator_result
        THEN [result |-> Failure("KeyError response_text"), made |-> made,
              written |-> IF set_ok THEN state5 ELSE None, calls |-> agent_calls]
        ELSE [result |->
                [success |-> TRUE,
                 response_text |-> response_text,
                 agent_used |-> IF use_generator THEN "generator" ELSE "simple_logic",
                 router_analysis |-> router_result,
                 current_topic_id |-> state7.current_topic_id,
                 covered_topic_ids |-> state7.covered_topic_ids],
              made |-> made,
              written |-> IF set_ok THEN state7 ELSE None,
              calls |-> agent_calls]

Turn(stored, g, router_out, generator_out, get_ok, set_ok, time) ==
    LET loaded == GetSessionState(stored, get_ok)
        now == IF loaded = None THEN 0 ELSE time
        made == IF loaded = None THEN InitializeSessionState(g, now) ELSE None
        state1 == IF loaded = None THEN made ELSE loaded
        current_topic == GetCurrentTopic(g, state1.current_topic_id)
        router_result == AnalyzeResponse(router_out)
        state5 == IF GoalAchieved(router_result)
                  THEN AdvanceToNextTopic(
                           MarkTopicCompleted(state1, current_topic.topic_id), g)
                  ELSE state1
        use_generator == UsesGenerator(router_result)
        generator_result == GenerateResponse(generator_out)
        response_text ==
            IF use_generator THEN generator_result.response_text
            ELSE GenerateSimpleResponse(router_result.next_action, current_topic)
        state7 == UpdateConversationHistory(state5, now)
        router_call == AgentCall("router", router_out, router_result)
        agent_calls ==
            IF use_generator
            THEN <<router_call, AgentCall("generator", generator_out, generator_result)>>
            ELSE <<router_call>>
    IN  IF current_topic = None
        THEN [result |-> Failure("topic not found"), made |-> made,
              written |-> None, calls |-> << >>]
        ELSE IF "next_action" \notin DOMAIN router_result
        THEN [result |-> Failure("KeyError next_action"), made |-> made,
              written |-> None, calls |-> <<router_call>>]
        ELSE IF use_generator /\ "response_text" \notin DOMAIN generator_result
        THEN [result |-> Failure("KeyError response_text"), made |-> made,
              written |-> None, calls |-> agent_calls]
        ELSE [result |->
                [success |-> TRUE,
                 response_text |-> response_text,
                 agent_used |-> IF use_generator THEN "generator" ELSE "simple_logic",
                 router_analysis |-> router_result,
                 current_topic_id |-> state7.current_topic_id,
                 covered_topic_ids |-> state7.covered_topic_ids],
              made |-> made,
              written |-> IF set_ok THEN state7 ELSE None,
              calls |-> agent_calls]

(***************************************************************************)
(* Actions.                                                                *)
(***************************************************************************)
Init ==
    /\ topic_graph \in Graphs
    /\ store = None
    /\ initial_state = None
    /\ result = None
    /\ clock = 0
    /\ expired = FALSE
    /\ calls = << >>
    /\ durable = None
    /\ durable_writes = 0
    /\ persist_result = None
    /\ inflight = [c \in Callers |-> [phase |-> "idle"]]
    /\ plan = None
    /\ plan_calls = << >>
    /\ evaluation = None
    /\ interview_turn = None
    /\ tracker = None
    /\ tracker_ttl = 0
    /\ tracker_clock = 0
    /\ tracker_result = None

\* process_user_response committing the state of the turn to PostgreSQL
Call_WritesDurable(router_out, generator_out, get_ok, set_ok) ==
    LET t == Turn(store, topic_graph, router_out, generator_out,
                  get_ok, set_ok, clock)
    IN /\ clock < MaxTurns
       /\ result' = t.result
       /\ initial_state' = t.made
       /\ calls' = t.calls
       /\ store' = IF t.written = None THEN store ELSE t.written
       /\ clock' = IF t.written = None THEN clock
                   ELSE t.written.last_updated + 1
       /\ durable' = IF t.written = None THEN durable
                     ELSE [final_current_topic_id |-> t.written.current_topic_id,
                           final_covered_topic_ids |-> t.written.covered_topic_ids,
                           final_conversation_history |-> t.written.conversation_history,
                           final_topic_progress |-> t.written.topic_progress]
       /\ UNCHANGED <<topic_graph, expired, durable_writes, persist_result, inflight, plan_vars, agent_vars>>

\* One call of process_user_response(session_id, ...) with these outcomes
\* of its model calls and Redis calls.
Call(router_out, generator_out, get_ok, set_ok) ==
    LET t == Turn(store, topic_graph, router_out, generator_out,
                  get_ok, set_ok, clock)
    IN /\ clock < MaxTurns
       /\ result' = t.result
       /\ initial_state' = t.made
       /\ calls' = t.calls
       /\ store' = IF t.written = None THEN store ELSE t.written
       /\ clock' = IF t.written = None THEN clock
                   ELSE t.written.last_updated + 1
       /\ UNCHANGED <<topic_graph, expired, durable_vars, inflight, plan_vars, agent_vars>>

ProcessUserResponse(get_ok, set_ok) ==
    \E router_out \in ModelOutputs(RouterReplies) :
       \E generator_out \in GeneratorOutputsFor(AnalyzeResponse(router_out)) :
          Call(router_out, generator_out, get_ok, set_ok)

\* The TTL of the entry (ex=3600) elapses: Redis drops the key.
Expire ==
    /\ store # None
    /\ store' = None
    /\ expired' = TRUE
    /\ clock' = 0
    /\ UNCHANGED <<topic_graph, initial_state, result, calls, durable_vars, inflight, plan_vars, agent_vars>>

\* Redis answers every get and set.
Next ==
    \/ ProcessUserResponse(TRUE, TRUE)
    \/ Expire

Spec == Init /\ [][Next]_vars

\* The caller passes another topic graph to the following calls.
SwitchGraph ==
    /\ topic_graph' \in Graphs \ {topic_graph}
    /\ UNCHANGED <<store, initial_state, result, clock, expired, calls, durable_vars,
                   inflight, plan_vars, agent_vars>>

NextMismatch ==
    \/ ProcessUserResponse(TRUE, TRUE) /\ clock < MismatchTurns
    \/ Expire
    \/ SwitchGraph

SpecMismatch == Init /\ [][NextMismatch]_vars

\* The columns persist_final_state_to_postgresql copies from the live state.
FinalState(session_state) ==
    [final_current_topic_id |-> session_state.current_topic_id,
     final_covered_topic_ids |-> session_state.covered_topic_ids,
     final_conversation_history |-> session_state.conversation_history,
     final_topic_progress |-> session_state.topic_progress]

\* persist_final_state_to_postgresql deleting the live state once it is
\* committed
PersistFinalState_DeletesLive(get_ok, db_ok) ==
    LET session_state == GetSessionState(store, get_ok)
    IN /\ durable_writes < MaxPersists
       /\ IF session_state = None \/ ~db_ok
          THEN /\ persist_result' = [returned |-> FALSE]
               /\ UNCHANGED <<durable, durable_writes, store>>
          ELSE /\ durable' = FinalState(session_state)
               /\ durable_writes' = durable_writes + 1
               /\ persist_result' = [returned |-> TRUE]
               /\ store' = None
       /\ UNCHANGED <<topic_graph, initial_state, result, clock, expired, calls,
                      inflight, plan_vars, agent_vars>>

\* One call of persist_final_state_to_postgresql(session_id, db_session):
\* without live state it returns False; otherwise it updates the row of the
\* session or adds it, and commits; a database error rolls back.
PersistFinalState(get_ok, db_ok) ==
    LET session_state == GetSessionState(store, get_ok)
    IN /\ durable_writes < MaxPersists
       /\ IF session_state = None \/ ~db_ok
          THEN /\ persist_result' = [returned |-> FALSE]
               /\ UNCHANGED <<durable, durable_writes>>
          ELSE /\ durable' = FinalState(session_state)
               /\ durable_writes' = durable_writes + 1
               /\ persist_result' = [returned |-> TRUE]
       /\ UNCHANGED <<session_vars, inflight, plan_vars, agent_vars>>

NextDurable ==
    \/ ProcessUserResponse(TRUE, TRUE) /\ clock < DurableTurns
    \/ Expire
    \/ \E db_ok \in BOOLEAN : PersistFinalState(TRUE, db_ok)

\* The interviews whose final state is persisted use the small graphs.
InitDurable == Init /\ topic_graph \in SmallGraphs

SpecDurable == InitDurable /\ [][NextDurable]_vars

\* Redis may fail on a get or on a set.
NextFaults ==
    \/ /\ clock < FaultTurns
       /\ \E get_ok \in BOOLEAN, set_ok \in BOOLEAN : ProcessUserResponse(get_ok, set_ok)
    \/ Expire

SpecFaults == Init /\ [][NextFaults]_vars

\* The Router's outputs of an interview in which every answer achieves the
\* goal of its topic.
GoalOutputs ==
    {[kind |-> "parsed", json |-> j] :
        j \in {r \in RouterReplies :
                 /\ "goal_achieved" \in DOMAIN r
                 /\ r.goal_achieved
                 /\ "next_action" \in DOMAIN r}}

NextProgress ==
    \E router_out \in GoalOutputs :
       \E generator_out \in GeneratorOutputsFor(AnalyzeResponse(router_out)) :
          Call(router_out, generator_out, TRUE, TRUE)

SpecProgress == Init /\ [][NextProgress]_vars

(***************************************************************************)
(* Overlapping calls.  process_user_response reads the entry at step 1 and *)
(* writes it at step 8 with no lock in between and no check of what the    *)
(* entry holds at the write (redis set, no WATCH, no version), so a call   *)
(* is two steps here: the read, and everything after it up to the return.  *)
(* The TTL of an hour does not elapse between the two steps.               *)
(***************************************************************************)
\* Step 1 of a call of caller c: _get_session_state.
Begin(c) ==
    /\ clock < ConcurrentTurns
    /\ inflight[c].phase \in {"idle", "returned"}
    /\ inflight' = [inflight EXCEPT ![c] = [phase |-> "read", read |-> store]]
    /\ UNCHANGED <<session_vars, durable_vars, plan_vars, agent_vars>>

\* steps 2 to 8 reading the entry again before the write, as under a lock
Finish_Locked(c, router_out, generator_out) ==
    LET t == Turn(store, topic_graph, router_out, generator_out, TRUE, TRUE, clock)
    IN /\ inflight[c].phase = "read"
       /\ result' = t.result
       /\ initial_state' = t.made
       /\ calls' = t.calls
       /\ store' = IF t.written = None THEN store ELSE t.written
       /\ clock' = IF t.written = None THEN clock
                   ELSE t.written.last_updated + 1
       /\ inflight' = [inflight EXCEPT ![c] =
                          [phase |-> "returned", read |-> inflight[c].read,
                           wrote |-> t.written]]
       /\ UNCHANGED <<topic_graph, expired, durable_vars, plan_vars, agent_vars>>

\* Steps 2 to 8 of the call of caller c, on the state it read at step 1.
Finish(c, router_out, generator_out) ==
    LET t == Turn(inflight[c].read, topic_graph, router_out, generator_out,
                  TRUE, TRUE, clock)
    IN /\ inflight[c].phase = "read"
       /\ result' = t.result
       /\ initial_state' = t.made
       /\ calls' = t.calls
       /\ store' = IF t.written = None THEN store ELSE t.written
       /\ clock' = IF t.written = None THEN clock
                   ELSE t.written.last_updated + 1
       /\ inflight' = [inflight EXCEPT ![c] =
                          [phase |-> "returned", read |-> inflight[c].read,
                           wrote |-> t.written]]
       /\ UNCHANGED <<topic_graph, expired, durable_vars, plan_vars, agent_vars>>

NextConcurrent ==
    \E c \in Callers :
        \/ Begin(c)
        \/ \E router_out \in ModelOutputs(RouterReplies) :
              \E generator_out \in GeneratorOutputsFor(AnalyzeResponse(router_out)) :
                 Finish(c, router_out, generator_out)

\* The interviews served by overlapping calls use the small graphs.
InitConcurrent == Init /\ topic_graph \in SmallGraphs

SpecConcurrent == InitConcurrent /\ [][NextConcurrent]_vars

(***************************************************************************)
(* InterviewSessionService.create_interview_plan_with_ai.                  *)
(*                                                                         *)
(* A JSON object is a record of its keys; a JSON value that is no object   *)
(* is a record with the field json_type.  A dependencies list is a set of  *)
(* ids, as in the topic graphs above.  A null session_narrative or null    *)
(* dependencies are handled by the code as the missing key is, and are not *)
(* drawn.                                                                  *)
(***************************************************************************)
\* InterviewSessionService.py:251  max_retries = 2
MaxRetries == 2

JsonList(items) == [json_type |-> "list", items |-> items]

JsonString == [json_type |-> "string"]

\* isinstance(v, dict)
IsDict(v) == "json_type" \notin DOMAIN v

\* isinstance(v, list)
IsList(v) == ~IsDict(v) /\ v.json_type = "list"

\* The topic lists the model may return: the graphs above, a list with an
\* element that is no object, a list of such elements only, a topic
\* without topic_id and a topic without dependencies.
PlanGraphs ==
    (Graphs \ {<< >>})
    \cup { <<JsonString, Topic("A", {})>>,
           <<JsonString>>,
           <<Topic("A", {}), [dependencies |-> {"A"}]>>,
           <<[topic_id |-> "A"]>> }

\* The values json.loads may yield for the reply to the plan prompt.
PlanReplies ==
    { JsonList(<< >>), JsonString,
      [session_narrative |-> "narrative"],
      [topic_graph |-> JsonString],
      [topic_graph |-> Topic("A", {})],
      [topic_graph |-> JsonList(<< >>)],
      [topic_graph |-> JsonList(<< >>), session_narrative |-> "narrative"] }
    \cup {[topic_graph |-> JsonList(g)] : g \in PlanGraphs}
    \cup {[topic_graph |-> JsonList(g), session_narrative |-> "narrative"] :
             g \in PlanGraphs}

\* What select_interview_archetype returns: an object with an archetype,
\* with or without reasoning, possibly with an error key.
ArchetypeResults ==
    {[archetype |-> a, reasoning |-> "reasoning"] :
        a \in {"CASE_STUDY", "BEHAVIORAL_DEEP_DIVE", "TECHNICAL_KNOWLEDGE_SCREEN"}}
    \cup {[archetype |-> "CASE_STUDY"],
          [archetype |-> "CASE_STUDY", reasoning |-> "reasoning", error |-> "error"]}

ArchetypeOutcomes ==
    {[kind |-> "raise"]} \cup {[kind |-> "returned", result |-> r] : r \in ArchetypeResults}

\* every path out of create_interview_plan_with_ai that returns no plan
\* raises ValueError; the two except clauses prefix the message.
Raised(message) == [raised |-> "ValueError", message |-> message]

\* Structure validation of the parsed reply: the message of the ValueError
\* it raises, or "ok".
ValidateStructure(json) ==
    IF ~IsDict(json) THEN "Response is not a valid JSON object"
    ELSE IF "topic_graph" \notin DOMAIN json
    THEN "Response missing required topic_graph field"
    ELSE IF ~IsList(json.topic_graph) THEN "topic_graph must be a list"
    ELSE IF Len(json.topic_graph.items) = 0 THEN "topic_graph cannot be empty"
    ELSE "ok"

RECURSIVE RetryLoop_OnInvalid(_, _)
\* the loop trying again after a reply that fails the structure validation
RetryLoop_OnInvalid(outs, attempt) ==
    LET out == outs[attempt + 1]
        again == \/ out.kind = "raise"
                 \/ out.kind = "parsed" /\ ValidateStructure(out.json) # "ok"
    IN IF again /\ attempt < MaxRetries - 1
       THEN RetryLoop_OnInvalid(outs, attempt + 1)
       ELSE [calls |-> attempt + 1, response |-> out]

RECURSIVE RetryLoop(_, _)
\* The loop "for attempt in range(max_retries)" around generate_content:
\* outs[attempt + 1] is the outcome of the call of that attempt.  The loop
\* goes on only when the call raises; the last attempt lets the exception
\* through.
RetryLoop(outs, attempt) ==
    LET out == outs[attempt + 1]
    IN IF out.kind = "raise" /\ attempt < MaxRetries - 1
       THEN RetryLoop(outs, attempt + 1)
       ELSE [calls |-> attempt + 1, response |-> out]

\* f"topic_{len(goals)}"
DefaultTopicId(n) == "topic_" \o ToString(n)

RECURSIVE Goals(_, _)
\* The transformation of the topic list into goals: elements that are no
\* objects are skipped, a missing topic_id and missing dependencies get
\* their defaults.
Goals(topics, goals) ==
    IF Len(topics) = 0 THEN goals
    ELSE LET topic == Head(topics)
         IN IF ~IsDict(topic) THEN Goals(Tail(topics), goals)
            ELSE Goals(Tail(topics),
                       Append(goals,
                              [topic_id |-> Get(topic, "topic_id", DefaultTopicId(Len(goals))),
                               dependencies |-> Get(topic, "dependencies", {}),
                               status |-> "pending"]))

\* The assembled interview plan; session_id, start_time, the echo of the
\* arguments and the fields derived from them are not kept.
InterviewPlan(json, archetype_result) ==
    LET goals == Goals(json.topic_graph.items, << >>)
    IN [goals |-> goals,
        status |-> "ready",
        total_goals |-> Len(goals),
        completed_goals |-> 0,
        topic_graph |-> json.topic_graph.items,
        session_narrative |-> Get(json, "session_narrative", ""),
        current_topic_id |-> IF Len(goals) > 0 THEN goals[1].topic_id ELSE None,
        covered_topic_ids |-> << >>,
        archetype |-> archetype_result.archetype,
        archetype_reasoning |-> archetype_result.reasoning]

\* create_interview_plan_with_ai as a function of the outcome of the
\* archetype selection, of whether the prompt template and the model client
\* are available, and of the outcomes of the generate_content calls: what
\* it returns or raises, and the generate_content calls it made.
CreateInterviewPlanWithAI(archetype_out, setup_ok, outs) ==
    LET loop == RetryLoop(outs, 0)
        made == SubSeq(outs, 1, loop.calls)
        response == loop.response
    IN  IF archetype_out.kind = "raise"
        THEN [plan |-> Raised("archetype selection failed"), calls |-> << >>]
        ELSE IF "error" \in DOMAIN archetype_out.result
        THEN [plan |-> Raised("Failed to select interview archetype"), calls |-> << >>]
        ELSE IF "reasoning" \notin DOMAIN archetype_out.result
        THEN [plan |-> Raised("KeyError reasoning"), calls |-> << >>]
        ELSE IF ~setup_ok
        THEN [plan |-> Raised("Failed to load prompt template or configure the client"),
              calls |-> << >>]
        ELSE IF response.kind = "raise"
        THEN [plan |-> Raised("generate_content raised"), calls |-> made]
        ELSE IF response.kind = "unparseable"
        THEN [plan |-> Raised("Failed to parse AI response as JSON"), calls |-> made]
        ELSE IF ValidateStructure(response.json) # "ok"
        THEN [plan |-> Raised(ValidateStructure(response.json)), calls |-> made]
        ELSE [plan |-> InterviewPlan(response.json, archetype_out.result),
              calls |-> made]

\* One call of create_interview_plan_with_ai(role, seniority, skills).
CreateInterviewPlan ==
    \E archetype_out \in ArchetypeOutcomes, setup_ok \in BOOLEAN,
       outs \in [1..MaxRetries -> ModelOutputs(PlanReplies)] :
        LET p == CreateInterviewPlanWithAI(archetype_out, setup_ok, outs)
        IN /\ plan' = p.plan
           /\ plan_calls' = p.calls
           /\ UNCHANGED <<session_vars, durable_vars, inflight, agent_vars>>

NextPlan == CreateInterviewPlan

\* No interview runs while plans are made.
InitPlan == Init /\ topic_graph = << >>

SpecPlan == InitPlan /\ [][NextPlan]_vars

(***************************************************************************)
(* InterviewEvaluator.evaluate_interview.                                  *)
(***************************************************************************)
\* every variable of the PersonaAgent and of the plan builder
persona_vars == <<session_vars, durable_vars, inflight, plan_vars>>

\* interview_evaluator.py:142  "Rate performance on a 1-5 scale"
MaxRating == 5

Ratings == 1..MaxRating

\* The objects the evaluation prompt asks for, with two dimensions: every
\* pair of ratings with every overall_score the model may write, and
\* replies without overall_assessment.
EvaluationObjects ==
    {[dimension_evaluations |->
         [problem_solving |-> [rating |-> r1], communication |-> [rating |-> r2]],
      overall_assessment |-> [overall_score |-> score]] :
        r1 \in Ratings, r2 \in Ratings, score \in Ratings}
    \cup {[dimension_evaluations |->
             [problem_solving |-> [rating |-> r1], communication |-> [rating |-> r1]]] :
             r1 \in Ratings}

\* The values json.loads may yield for the reply to the evaluation prompt.
EvaluationReplies == EvaluationObjects \cup {JsonList(<< >>)}

\* The interview_plan argument: a plan with or without selected_archetype,
\* or None.
EvaluationPlans ==
    {None, [selected_archetype |-> "CASE_STUDY"], [interview_objective |-> "objective"]}

\* the except branch returning neutral ratings beside the error
EvaluationFailure_DefaultRatings ==
    [error |-> "Evaluation failed",
     dimension_evaluations |-> [problem_solving |-> [rating |-> 1]],
     overall_assessment |-> [overall_score |-> 1],
     evaluation_metadata |-> [processing_time_ms |-> 0]]

\* The except branch of evaluate_interview; role, seniority and skill of the
\* metadata echo the arguments and are not kept, nor is the timestamp.
EvaluationFailure ==
    [error |-> "Evaluation failed",
     evaluation_metadata |-> [processing_time_ms |-> 0]]

\* evaluate_interview: interview_plan.get raises on None, the model call
\* may raise, json.loads may raise and the assignment of
\* evaluation_metadata raises on a value that is no object; all are caught.
\* Otherwise the parsed reply is returned with evaluation_metadata added.
EvaluateInterviewResult(interview_plan, out) ==
    IF interview_plan = None THEN EvaluationFailure
    ELSE IF out.kind # "parsed" THEN EvaluationFailure
    ELSE IF ~IsDict(out.json) THEN EvaluationFailure
    ELSE [evaluation_metadata |->
             [archetype |-> Get(interview_plan, "selected_archetype", "")]]
         @@ out.json

\* One call of evaluate_interview.
EvaluateInterview ==
    \E interview_plan \in EvaluationPlans, out \in ModelOutputs(EvaluationReplies) :
        /\ evaluation' = [interview_plan |-> interview_plan, outcome |-> out,
                          returned |-> EvaluateInterviewResult(interview_plan, out)]
        /\ UNCHANGED <<persona_vars, interview_turn, tracker_vars>>

NextEvaluate == EvaluateInterview

\* No interview runs while an interview is evaluated.
InitEvaluate == Init /\ topic_graph = << >>

SpecEvaluate == InitEvaluate /\ [][NextEvaluate]_vars

(***************************************************************************)
(* AutonomousInterviewer.conduct_interview_turn.                           *)
(***************************************************************************)
\* an empty dict
EmptyDict == [key \in {} |-> None]

\* The interview_plan argument: None, a plan without execution guidance, a
\* plan with an empty one, a plan that carries it and a plan that carries it
\* in its session_context.
InterviewerPlans ==
    { None,
      [selected_archetype |-> "CASE_STUDY"],
      [during_interview_execution |-> ""],
      [during_interview_execution |-> "guidance"],
      [session_context |-> [during_interview_execution |-> "guidance"]] }

InterviewStages == {"problem_understanding", "solution_design"}

\* The objects the signal prompt may be answered with.
SignalReplies ==
    { EmptyDict, [problem_solving |-> [confidence |-> "High"]] }

\* The values json.loads may yield for the reply to the interviewer prompt.
InterviewerReplies ==
    { [response_text |-> "next question",
       interview_state |-> [current_stage |-> "solution_design"]],
      [chain_of_thought |-> "thought"],
      JsonList(<< >>) }

\* _extract_execution_guidance finds guidance in the plan
HasExecutionGuidance(interview_plan) ==
    IF interview_plan = None THEN FALSE
    ELSE IF Get(interview_plan, "during_interview_execution", "") # "" THEN TRUE
    ELSE Get(Get(interview_plan, "session_context", EmptyDict),
             "during_interview_execution", "") # ""

\* _track_signals: no model call without a candidate answer in the history;
\* a failure of the call or of the parse is caught and yields {}.
TrackSignals(signal_out) ==
    IF signal_out.kind = "parsed" THEN signal_out.json ELSE EmptyDict

SignalOutputsFor(has_answer) ==
    IF has_answer THEN ModelOutputs(SignalReplies) ELSE {[kind |-> "not called"]}

\* The except branch of conduct_interview_turn; the timestamp is not kept.
InterviewerFallback(interview_stage) ==
    [chain_of_thought |-> <<"Error occurred during interview turn",
                           "Falling back to default follow-up question">>,
     response_text |-> "I see. Can you tell me more about your approach to this problem?",
     interview_state |->
        [current_stage |-> interview_stage,
         skill_progress |-> "unknown",
         next_focus |-> "continue_current_topic"],
     signal_evidence |-> EmptyDict,
     latency_ms |-> 0,
     error |-> TRUE]

\* conduct_interview_turn: _extract_execution_guidance is called before the
\* try and its ValueError reaches the caller; within the try, the model
\* call, json.loads and the assignment of signal_evidence to a value that is
\* no object raise and are caught.  Otherwise the parsed reply is returned
\* with signal_evidence set; the measured latency and the timestamp are not
\* kept.
ConductInterviewTurnResult(interview_plan, interview_stage, signal_out, out) ==
    IF ~HasExecutionGuidance(interview_plan)
    THEN [raised |-> "ValueError", message |-> "No execution guidance found in interview plan"]
    ELSE IF out.kind # "parsed" THEN InterviewerFallback(interview_stage)
    ELSE IF ~IsDict(out.json) THEN InterviewerFallback(interview_stage)
    ELSE [signal_evidence |-> TrackSignals(signal_out)] @@ out.json

\* One call of conduct_interview_turn.
ConductInterviewTurn ==
    \E interview_plan \in InterviewerPlans, interview_stage \in InterviewStages,
       has_answer \in BOOLEAN, out \in ModelOutputs(InterviewerReplies) :
       \E signal_out \in SignalOutputsFor(has_answer) :
        /\ interview_turn' =
              [interview_plan |-> interview_plan,
               interview_stage |-> interview_stage,
               signal_outcome |-> signal_out.kind,
               outcome |-> out.kind,
               returned |-> ConductInterviewTurnResult(
                               interview_plan, interview_stage, signal_out, out)]
        /\ UNCHANGED <<persona_vars, evaluation, tracker_vars>>

NextInterviewer == ConductInterviewTurn

\* No other agent runs while the autonomous interviewer is observed.
InitInterviewer == Init /\ topic_graph = << >>

SpecInterviewer == InitInterviewer /\ [][NextInterviewer]_vars

(***************************************************************************)
(* SessionTracker: the Redis entry session:{session_id} of one session_id. *)
(* A turn is identified by its timestamp, the number of turns added to the *)
(* session before it; role and content are not kept.                       *)
(***************************************************************************)
\* cap on the turns added to a session
MaxAdds == 22

\* session_tracker.py:47 and :78  ex=3600
SessionTtl == 3600

\* session_tracker.py:104  "Keep only last 20 turns to manage memory"
TrackerHistoryBound == 20

\* the steps of the clock in one TTL
TicksPerTtl == 3

\* the time that passes in one step of the clock
TickSeconds == SessionTtl \div TicksPerTtl

\* conversation_history[:TrackerHistoryBound], the oldest turns
TrackerLastTurns_Oldest(history) ==
    IF Len(history) > TrackerHistoryBound
    THEN SubSeq(history, 1, TrackerHistoryBound)
    ELSE history

\* conversation_history[-TrackerHistoryBound:] when the list is longer
TrackerLastTurns(history) ==
    IF Len(history) > TrackerHistoryBound
    THEN SubSeq(history, Len(history) - TrackerHistoryBound + 1, Len(history))
    ELSE history

\* SessionTracker.create_session
CreateSession ==
    /\ tracker' = [conversation_history |-> << >>,
                   current_stage |-> "problem_understanding",
                   skill_progress |-> "not_started"]
    /\ tracker_ttl' = SessionTtl
    /\ tracker_clock' = 0
    /\ tracker_result' = [op |-> "create_session"]
    /\ UNCHANGED <<persona_vars, evaluation, interview_turn>>

\* update_session on the session it reads: the updates go over the stored
\* fields and last_updated is set.
UpdatedSession(current_session, updates, now) ==
    [last_updated |-> now] @@ updates @@ current_session

\* One call of add_conversation_turn: get_session, append, cut, and then
\* update_session, which reads the session again and sets it with ex=3600.
\* A Redis error in either is caught and the call returns False.
AddConversationTurn(get_ok, set_ok) ==
    /\ tracker_clock < MaxAdds
    /\ IF ~get_ok \/ tracker = None \/ ~set_ok
       THEN /\ tracker_result' = [op |-> "add_conversation_turn", returned |-> FALSE]
            /\ UNCHANGED <<tracker, tracker_ttl, tracker_clock>>
       ELSE LET new_turn == [timestamp |-> tracker_clock]
                current_session ==
                    [tracker EXCEPT !.conversation_history =
                        TrackerLastTurns(Append(@, new_turn))]
            IN /\ tracker' = UpdatedSession(tracker, current_session, tracker_clock)
               /\ tracker_ttl' = SessionTtl
               /\ tracker_clock' = tracker_clock + 1
               /\ tracker_result' = [op |-> "add_conversation_turn", returned |-> TRUE]
    /\ UNCHANGED <<persona_vars, evaluation, interview_turn>>

\* Time passes; Redis drops the key when its TTL has elapsed.
TrackerTick ==
    /\ tracker # None
    /\ IF tracker_ttl > TickSeconds
       THEN /\ tracker_ttl' = tracker_ttl - TickSeconds
            /\ UNCHANGED <<tracker, tracker_clock>>
       ELSE /\ tracker_ttl' = 0
            /\ tracker' = None
            /\ tracker_clock' = 0
    /\ UNCHANGED <<persona_vars, evaluation, interview_turn, tracker_result>>

NextTracker ==
    \/ CreateSession
    \/ \E get_ok \in BOOLEAN, set_ok \in BOOLEAN : AddConversationTurn(get_ok, set_ok)
    \/ TrackerTick

\* No other agent runs while the session tracker is observed.
InitTracker == Init /\ topic_graph = << >>

SpecTracker == InitTracker /\ [][NextTracker]_vars

(***************************************************************************)
(* Properties.                                                             *)
(***************************************************************************)
\* The id the specification reserves for "interview complete"; the code
\* has no such value.
InterviewComplete == "INTERVIEW_COMPLETE"

\* the decision carries goal_achieved = true
ReportsGoal(router_analysis) ==
    /\ "goal_achieved" \in DOMAIN router_analysis
    /\ router_analysis.goal_achieved

\* the last call returned success and the stored entry is the one it wrote
TurnStored ==
    /\ result # None
    /\ result.success
    /\ store # None

\* no topic outside covered_topic_ids has all its dependencies covered
NoTopicLeft(state, g) ==
    \A i \in 1..Len(g) :
        \/ g[i].topic_id \in Range(state.covered_topic_ids)
        \/ ~(g[i].dependencies \subseteq Range(state.covered_topic_ids))

\* C1: after a turn with goal_achieved=true that leaves no topic outside the
\* covered ones with all its dependencies covered, current_topic_id is a
\* terminal sentinel, not the id of a topic of the graph.
C1_SentinelWhenNoTopicLeft ==
    (/\ TurnStored
     /\ ReportsGoal(result.router_analysis)
     /\ NoTopicLeft(store, topic_graph))
    => store.current_topic_id \notin TopicIdsOf(topic_graph)

\* C2: in every stored session state current_topic_id is not a member of
\* covered_topic_ids.
C2_CurrentNotCovered ==
    store # None => store.current_topic_id \notin Range(store.covered_topic_ids)

\* C4: in every session state created or stored by process_user_response,
\* current_topic_id is the id of a topic of the graph or the terminal
\* sentinel.
Resolves(topic_id) ==
    topic_id \in TopicIdsOf(topic_graph) \cup {InterviewComplete}

C4_CurrentResolves ==
    /\ initial_state # None => Resolves(initial_state.current_topic_id)
    /\ store # None => Resolves(store.current_topic_id)

\* the state a call works on: the stored entry or, without one, the state
\* the call initializes
Before == IF store = None THEN initial_state' ELSE store

FailedOutputs == {[kind |-> "raise"], [kind |-> "unparseable"]}

\* C5: a turn whose Router and Generator calls both fail returns, for a
\* non-empty graph, success=true with a non-empty response_text, and leaves
\* current_topic_id and covered_topic_ids as they were before the turn.
C5_FallbackAvailability ==
    [][\A router_out \in FailedOutputs, generator_out \in FailedOutputs :
        (Call(router_out, generator_out, TRUE, TRUE) /\ Len(topic_graph) > 0)
        => /\ result'.success
           /\ result'.response_text # ""
           /\ result'.current_topic_id = Before.current_topic_id
           /\ result'.covered_topic_ids = Before.covered_topic_ids
           /\ store' # None
           /\ store'.current_topic_id = Before.current_topic_id
           /\ store'.covered_topic_ids = Before.covered_topic_ids
           /\ store'.current_topic_id \in TopicIdsOf(topic_graph)]_vars

\* a turn on a loaded state ended on both fallbacks
C5_Witness ==
    /\ TurnStored
    /\ "error" \in DOMAIN result.router_analysis
    /\ result.response_text = GeneratorFallbackText
    /\ initial_state = None
    /\ Len(store.covered_topic_ids) >= 1

Min(a, b) == IF a < b THEN a ELSE b

\* C6: after n turns written to an entry, its conversation_history holds
\* the last min(n, 10) of them, oldest first.
C6_HistoryBound ==
    store # None =>
        LET history == store.conversation_history
        IN /\ Len(history) = Min(clock, HistoryBound)
           /\ \A i \in 1..Len(history) :
                history[i].timestamp = clock - Len(history) + (i - 1)

\* more turns were written than the history keeps
C6_Witness ==
    /\ TurnStored
    /\ clock > HistoryBound
    /\ store.conversation_history[1].timestamp > store.created_at

\* the topic at index i may become current after the turn closed the topic
\* with id closed
Eligible(g, covered, closed, i) ==
    /\ g[i].topic_id \notin Range(covered)
    /\ g[i].topic_id # closed
    /\ g[i].dependencies \subseteq Range(covered)

\* C7: a turn with goal_achieved=true marks the current topic completed,
\* adds it to covered_topic_ids and makes current the first topic in
\* declaration order that is not covered, is not the closed topic and has
\* all its dependencies covered; no topic with an uncovered dependency
\* becomes current.
C7_AdvanceInDeclarationOrder ==
    [][(/\ store' # None
        /\ result'.success
        /\ ReportsGoal(result'.router_analysis))
       => LET closed == Before.current_topic_id
              covered == store'.covered_topic_ids
              g == topic_graph
          IN /\ closed \in Range(covered)
             /\ Range(covered) = Range(Before.covered_topic_ids) \cup {closed}
             /\ store'.topic_progress[closed].status = "completed"
             /\ \A i \in 1..Len(g) :
                    (/\ Eligible(g, covered, closed, i)
                     /\ \A j \in 1..(i - 1) : ~Eligible(g, covered, closed, j))
                    => store'.current_topic_id = g[i].topic_id
             /\ store'.current_topic_id # closed
                    => \E i \in 1..Len(g) :
                          /\ g[i].topic_id = store'.current_topic_id
                          /\ g[i].dependencies \subseteq Range(covered)]_vars

\* in the graph C, B, A the turn that closed C made B current, and in the
\* graph A, C (after B), B (after A) the turn that closed A made B current
C7_Witness ==
    /\ TurnStored
    /\ ReportsGoal(result.router_analysis)
    /\ store.current_topic_id = "B"
    /\ \/ topic_graph[1].topic_id = "C" /\ store.covered_topic_ids = <<"C">>
       \/ topic_graph[2].topic_id = "C" /\ store.covered_topic_ids = <<"A">>

\* C8 as stated: a turn in which the Router returns REDIRECT_TO_TOPIC leaves
\* current_topic_id as it was.
C8_RedirectKeepsCurrent ==
    [][(/\ store' # None
        /\ result'.success
        /\ result'.router_analysis.next_action = "REDIRECT_TO_TOPIC")
       => /\ store'.current_topic_id = Before.current_topic_id
          /\ result'.current_topic_id = Before.current_topic_id]_vars

\* C8 amended: a turn in which the Router returns REDIRECT_TO_TOPIC with
\* goal_achieved not true leaves current_topic_id as it was.
C8_RedirectWithoutGoalKeepsCurrent ==
    [][(/\ store' # None
        /\ result'.success
        /\ result'.router_analysis.next_action = "REDIRECT_TO_TOPIC"
        /\ ~ReportsGoal(result'.router_analysis))
       => /\ store'.current_topic_id = Before.current_topic_id
          /\ result'.current_topic_id = Before.current_topic_id]_vars

\* a redirect without the goal achieved was answered on a later topic
C8_Witness ==
    /\ TurnStored
    /\ result.router_analysis.next_action = "REDIRECT_TO_TOPIC"
    /\ ~ReportsGoal(result.router_analysis)
    /\ result.agent_used = "simple_logic"
    /\ initial_state = None
    /\ store.current_topic_id # topic_graph[1].topic_id

\* C9: a call that finds the entry expired works on a freshly initialized
\* state (first topic current, nothing covered, empty history) as a first
\* call does, and does not fail on a state inconsistency.
C9_ExpiryIsFreshStart ==
    [][(expired /\ store = None)
       => /\ initial_state' # None
          /\ initial_state'.covered_topic_ids = << >>
          /\ initial_state'.conversation_history = << >>
          /\ Len(topic_graph) > 0 =>
                /\ initial_state'.current_topic_id = topic_graph[1].topic_id
                /\ result'.success \/ result'.error # "topic not found"
                /\ result'.success =>
                      /\ Len(store'.conversation_history) = 1
                      /\ Range(store'.covered_topic_ids) \subseteq
                            {topic_graph[1].topic_id}]_vars

\* an entry expired and the next call started afresh and stored its turn
C9_Witness ==
    /\ expired
    /\ TurnStored
    /\ initial_state # None
    /\ store.covered_topic_ids = << >>
    /\ Len(store.conversation_history) = 1

\* C10: the state initialized when none is stored has nothing covered, an
\* empty history and, as current topic, the first topic in graph order whose
\* dependencies are all satisfied.
C10_InitialTopicHasNoUnmetDependency ==
    (initial_state # None /\ \E i \in 1..Len(topic_graph) : topic_graph[i].dependencies = {})
    => /\ initial_state.covered_topic_ids = << >>
       /\ initial_state.conversation_history = << >>
       /\ \E i \in 1..Len(topic_graph) :
            /\ topic_graph[i].dependencies = {}
            /\ \A j \in 1..(i - 1) : topic_graph[j].dependencies # {}
            /\ initial_state.current_topic_id = topic_graph[i].topic_id

\* a step of process_user_response: the graph stays and no entry is dropped
IsTurnStep ==
    /\ topic_graph' = topic_graph
    /\ ~(store # None /\ store' = None)

\* C11: a call whose state has a current_topic_id that is no topic of the
\* supplied graph returns a failure, invokes neither the Router nor the
\* Generator and writes nothing to the session store.
C11_UnresolvedTopicFails ==
    [][(IsTurnStep /\ Before.current_topic_id \notin TopicIdsOf(topic_graph))
       => /\ ~result'.success
          /\ calls' = << >>
          /\ store' = store]_vars

\* a stored state met a graph without its current topic and the call failed
C11_Witness ==
    /\ store # None
    /\ store.current_topic_id \notin TopicIdsOf(topic_graph)
    /\ Len(topic_graph) > 0
    /\ initial_state = None
    /\ result # None
    /\ ~result.success
    /\ result.error = "topic not found"

\* the Router's model call of this turn raised or returned unparseable text
RouterFailed(cs) ==
    /\ Len(cs) >= 1
    /\ cs[1].agent = "router"
    /\ cs[1].outcome \in {"raise", "unparseable"}

\* C12: when its model call raises or returns unparseable text,
\* analyze_response returns the default decision GENERATE_FOLLOW_UP with
\* goal_achieved=false, a placeholder summary, an error field and
\* router_latency_ms = 0; such a turn marks no topic completed and leaves
\* current_topic_id as it was.
C12_RouterFailureIsDefaultDecision ==
    [][(IsTurnStep /\ RouterFailed(calls'))
       => /\ calls'[1].returned =
                [analysis_summary |-> "Error analyzing response",
                 goal_achieved |-> FALSE,
                 next_action |-> "GENERATE_FOLLOW_UP",
                 router_latency_ms |-> 0,
                 error |-> TRUE]
          /\ result'.success =>
                /\ store' # None
                /\ store'.current_topic_id = Before.current_topic_id
                /\ store'.covered_topic_ids = Before.covered_topic_ids
                /\ store'.topic_progress = Before.topic_progress
                /\ result'.current_topic_id = Before.current_topic_id
          /\ ~result'.success => store' = store]_vars

\* the Router's call returned unparseable text on a turn of a loaded state
\* with a covered topic, and the turn was stored
C12_Witness ==
    /\ TurnStored
    /\ RouterFailed(calls)
    /\ calls[1].outcome = "unparseable"
    /\ initial_state = None
    /\ Len(store.covered_topic_ids) >= 1
    /\ store.last_updated + 1 = clock

\* C13: whatever the outcome of its model call, generate_response returns a
\* result that carries a response_text; when the call raises or the text is
\* unparseable the result is the fallback utterance with
\* generator_latency_ms = 0 and an error field.
C13_GeneratorResultHasText ==
    \A i \in 1..Len(calls) :
        calls[i].agent = "generator"
        => /\ "response_text" \in DOMAIN calls[i].returned
           /\ calls[i].outcome \in {"raise", "unparseable"}
                => calls[i].returned =
                      [internal_thought |-> "Error generating response, using fallback",
                       response_text |-> GeneratorFallbackText,
                       generator_latency_ms |-> 0,
                       error |-> TRUE]

\* C17: when process_user_response returns success=true, the entry of the
\* session holds the updated state: the current_topic_id and the
\* covered_topic_ids of the result, and the new turn last in the history.
C17_SuccessMeansStored ==
    [][(IsTurnStep /\ result'.success)
       => /\ store' # None
          /\ store'.current_topic_id = result'.current_topic_id
          /\ store'.covered_topic_ids = result'.covered_topic_ids
          /\ Len(store'.conversation_history) >= 1
          /\ store' # store]_vars

\* C15: the durable record of a session is written at most once.
C15_DurableWrittenOnce == durable_writes <= 1

\* C16: a step that changes the durable store is a call of
\* persist_final_state_to_postgresql that returned True and wrote the live
\* state; it is no step of process_user_response, which changes the session
\* state, the result or the clock and never the durable store.
C16_OnlyPersistWritesDurable ==
    [][(durable' # durable \/ durable_writes' # durable_writes)
       => /\ UNCHANGED session_vars
          /\ persist_result' = [returned |-> TRUE]
          /\ store # None
          /\ durable'.final_current_topic_id = store.current_topic_id
          /\ durable'.final_covered_topic_ids = store.covered_topic_ids
          /\ durable'.final_conversation_history = store.conversation_history]_vars

\* a turn was stored after the final state was persisted, and the durable
\* row still holds the state from before that turn
C16_Witness ==
    /\ durable # None
    /\ TurnStored
    /\ Len(store.conversation_history) > Len(durable.final_conversation_history)
    /\ store.covered_topic_ids # durable.final_covered_topic_ids

\* the state a call of caller c works on: what it read at step 1 or, having
\* read none, the state it initializes
Snapshot(c) == IF inflight[c].read = None THEN initial_state' ELSE inflight[c].read

\* caller c returns from its call in this step
Returns(c) ==
    /\ inflight[c].phase = "read"
    /\ inflight'[c].phase = "returned"

\* C14: no lock covers the read-modify-write of process_user_response: the
\* state a successful call stores is made from what that call read at its
\* step 1 alone, one turn appended to the history it read and at most its
\* own current topic added to the covered topics it read, whatever another
\* call stored since the read; so of two overlapping calls the stored state
\* reflects one turn only.
C14_WriteFromOwnRead ==
    [][\A c \in Callers :
        (Returns(c) /\ result'.success)
        => /\ store' # None
           /\ store' = inflight'[c].wrote
           /\ inflight[c].read = None => initial_state' # None
           /\ Len(store'.conversation_history) =
                 Len(Snapshot(c).conversation_history) + 1
           /\ \A i \in 1..Len(Snapshot(c).conversation_history) :
                 store'.conversation_history[i] = Snapshot(c).conversation_history[i]
           /\ Range(store'.covered_topic_ids) \subseteq
                 Range(Snapshot(c).covered_topic_ids) \cup {Snapshot(c).current_topic_id}]_vars

\* two calls read the same stored state and both stored their turn: the
\* history gained one turn instead of two, and the topic one of them added
\* to covered_topic_ids is missing from the stored state
C14_Witness ==
    /\ \A c \in Callers :
          /\ inflight[c].phase = "returned"
          /\ inflight[c].read # None
          /\ inflight[c].wrote # None
    /\ inflight["c1"].read = inflight["c2"].read
    /\ store # None
    /\ Len(store.conversation_history) =
          Len(inflight["c1"].read.conversation_history) + 1
    /\ \E c \in Callers :
          ~(Range(inflight[c].wrote.covered_topic_ids) \subseteq
               Range(store.covered_topic_ids))

\* the last create_interview_plan_with_ai call returned a plan
PlanReturned == plan # None /\ "goals" \in DOMAIN plan

\* the last create_interview_plan_with_ai call raised
PlanRaised == plan # None /\ "raised" \in DOMAIN plan

\* topic a of the list names topic b among its dependencies
DependsOn(topics, a, b) == topics[b].topic_id \in topics[a].dependencies

RECURSIVE ReachableIn(_, _, _)
\* the topics that topic a reaches over at most n dependency edges
ReachableIn(topics, a, n) ==
    IF n = 0 THEN {a}
    ELSE LET near == ReachableIn(topics, a, n - 1)
         IN near \cup {b \in 1..Len(topics) : \E m \in near : DependsOn(topics, m, b)}

\* every dependency is the id of a topic of the list and no topic reaches
\* itself over dependency edges
WellFormed(topics) ==
    /\ \A a \in 1..Len(topics) :
          topics[a].dependencies \subseteq {topics[b].topic_id : b \in 1..Len(topics)}
    /\ \A a \in 1..Len(topics) :
          \A b \in ReachableIn(topics, a, Len(topics)) : ~DependsOn(topics, b, a)

\* C18: the topics of every plan create_interview_plan_with_ai returns are
\* well formed: every dependency is the topic_id of a topic of the same
\* plan and the dependency relation has no cycle.
C18_ReturnedGraphWellFormed == PlanReturned => WellFormed(plan.goals)

\* the parsed reply is no object, has no topic_graph, has a topic_graph that
\* is no list, or has an empty one
StructurallyInvalid(out) ==
    /\ out.kind = "parsed"
    /\ IF "json_type" \in DOMAIN out.json THEN TRUE
       ELSE IF "topic_graph" \notin DOMAIN out.json THEN TRUE
       ELSE IF "json_type" \notin DOMAIN out.json.topic_graph THEN TRUE
       ELSE IF out.json.topic_graph.json_type # "list" THEN TRUE
       ELSE out.json.topic_graph.items = << >>

\* C19: a reply that parses but is structurally invalid is the last
\* generate_content call of its create_interview_plan_with_ai call, which
\* raises and returns no plan.
C19_StructuralViolationFails ==
    \A i \in 1..Len(plan_calls) :
        StructurallyInvalid(plan_calls[i])
        => /\ i = Len(plan_calls)
           /\ PlanRaised
           /\ ~PlanReturned

\* the first attempt returned a structurally invalid reply and the call
\* raised with an attempt left
C19_Witness ==
    /\ Len(plan_calls) = 1
    /\ Len(plan_calls) < MaxRetries
    /\ StructurallyInvalid(plan_calls[1])
    /\ PlanRaised
    /\ plan.message = "topic_graph cannot be empty"

\* C20: a generate_content reply that is not parseable is followed by
\* another attempt unless it was the last of the MaxRetries attempts; the
\* call raises only when its last attempt failed, and a parseable reply of
\* the second attempt yields a plan.
C20_UnparseableIsRetried ==
    /\ Len(plan_calls) <= MaxRetries
    /\ \A i \in 1..Len(plan_calls) :
          (plan_calls[i].kind = "unparseable" /\ i < MaxRetries)
          => Len(plan_calls) > i

\* C24: a successful turn whose Router decision is one of the four actions
\* of the output schema has called the Generator exactly once, after the
\* Router, and the utterance is the Generator's.
C24_GeneratorComposesEveryDecision ==
    (/\ result # None
     /\ result.success
     /\ result.router_analysis.next_action \in
           {"ACKNOWLEDGE_AND_TRANSITION", "GENERATE_FOLLOW_UP",
            "REDIRECT_TO_TOPIC", "ANSWER_CLARIFICATION"})
    => /\ Len(calls) = 2
       /\ calls[1].agent = "router"
       /\ calls[2].agent = "generator"
       /\ result.agent_used = "generator"

\* C25: in every stored state of an interview on a fixed graph, the status
\* of a topic in topic_progress is "completed" exactly when its id is in
\* covered_topic_ids and "pending" otherwise, and covered_topic_ids holds
\* no id twice.
C25_ProgressAgreesWithCovered ==
    store # None =>
        /\ \A id \in DOMAIN store.topic_progress :
              /\ store.topic_progress[id].status \in {"pending", "completed"}
              /\ store.topic_progress[id].status = "completed"
                    <=> id \in Range(store.covered_topic_ids)
        /\ Range(store.covered_topic_ids) \subseteq DOMAIN store.topic_progress
        /\ \A i, j \in 1..Len(store.covered_topic_ids) :
              store.covered_topic_ids[i] = store.covered_topic_ids[j] => i = j

\* two of the three topics are completed and covered, the third is pending
C25_Witness ==
    /\ TurnStored
    /\ Len(topic_graph) = 3
    /\ Len(store.covered_topic_ids) = 2
    /\ \E id \in DOMAIN store.topic_progress :
          store.topic_progress[id].status = "pending"
    /\ ReportsGoal(result.router_analysis)
    /\ initial_state = None

\* C27: a call of process_user_response that returns success=false leaves
\* the stored entry of the session exactly as it was before the call.
C27_FailedTurnStoresNothing ==
    [][(IsTurnStep /\ result' # None /\ ~result'.success /\ calls' # calls)
       => store' = store]_vars

\* the Router reported the goal achieved without a next_action on a turn of
\* a stored state: the call failed and the topic it completed in memory is
\* not in the stored entry
C27_Witness ==
    /\ store # None
    /\ result # None
    /\ ~result.success
    /\ result.error = "KeyError next_action"
    /\ initial_state = None
    /\ Len(calls) = 1
    /\ ReportsGoal(calls[1].returned)
    /\ store.current_topic_id \notin Range(store.covered_topic_ids)
    /\ store.current_topic_id \in TopicIdsOf(topic_graph)

\* every topic of the graph is in the covered topics of the state
AllCovered(state, g) ==
    Len(g) > 0 /\ TopicIdsOf(g) \subseteq Range(state.covered_topic_ids)

\* C28: once covered_topic_ids holds every topic of the graph, every
\* further turn, whatever the Router returns, leaves covered_topic_ids and
\* current_topic_id as they were and returns success=true with a
\* non-empty response_text.
C28_AllCoveredIsAbsorbing ==
    [][(IsTurnStep /\ store # None /\ AllCovered(store, topic_graph)
          /\ (calls' # calls \/ store' # store))
       => /\ result'.success
          /\ result'.response_text # ""
          /\ store' # None
          /\ store'.covered_topic_ids = store.covered_topic_ids
          /\ store'.current_topic_id = store.current_topic_id]_vars

\* C29: on a graph whose dependencies all name topics of the graph and form
\* no cycle, after k stored turns that all achieved their goal the covered
\* topics are min(k, n) distinct topics of the graph: each turn adds one
\* topic until all n are covered, and while a topic is left the current
\* topic is one that is not covered yet.
C29_EveryGoalTurnCoversOneTopic ==
    (store # None /\ WellFormed(topic_graph)) =>
        /\ Len(store.covered_topic_ids) = Min(clock, Len(topic_graph))
        /\ Cardinality(Range(store.covered_topic_ids)) = Min(clock, Len(topic_graph))
        /\ Range(store.covered_topic_ids) \subseteq TopicIdsOf(topic_graph)
        /\ clock < Len(topic_graph) =>
              store.current_topic_id \notin Range(store.covered_topic_ids)

\* the three topics of the graph whose second topic depends on the third are
\* covered after three turns, the dependency before the dependent
C29_Witness ==
    /\ TurnStored
    /\ Len(topic_graph) = 3
    /\ topic_graph[2].dependencies = {"B"}
    /\ clock = 3
    /\ store.covered_topic_ids = <<"A", "B", "C">>

\* a call of persist_final_state_to_postgresql happens in this step
IsPersistStep ==
    persist_result' # persist_result \/ durable_writes' # durable_writes

\* C30: a call of persist_final_state_to_postgresql without live state
\* returns False and leaves the durable row as it was; a call that returns
\* True leaves the one row of the session holding the current_topic_id,
\* covered_topic_ids, history and topic_progress of the live state; no call
\* changes the live state.
C30_PersistIsUpsert ==
    [][IsPersistStep
       => /\ store' = store
          /\ store = None =>
                /\ persist_result' = [returned |-> FALSE]
                /\ durable' = durable
          /\ persist_result'.returned =>
                /\ store # None
                /\ durable' =
                      [final_current_topic_id |-> store.current_topic_id,
                       final_covered_topic_ids |-> store.covered_topic_ids,
                       final_conversation_history |-> store.conversation_history,
                       final_topic_progress |-> store.topic_progress]
          /\ ~persist_result'.returned => durable' = durable]_vars

\* the final state was persisted twice, the second time after another turn,
\* and the row holds the live state, which is still in the store
C30_Witness ==
    /\ durable_writes = 2
    /\ persist_result = [returned |-> TRUE]
    /\ store # None
    /\ durable # None
    /\ durable.final_conversation_history = store.conversation_history
    /\ Len(store.conversation_history) = 2
    /\ durable.final_covered_topic_ids = store.covered_topic_ids

\* C21: evaluate_interview returns a result whatever its model call does;
\* when the call raises or its output is unparseable the result carries an
\* error field and neither dimension ratings nor an overall score.
C21_FailedEvaluationHasNoRatings ==
    evaluation # None =>
        /\ "evaluation_metadata" \in DOMAIN evaluation.returned
        /\ evaluation.outcome.kind \in {"raise", "unparseable"}
              => /\ "error" \in DOMAIN evaluation.returned
                 /\ "dimension_evaluations" \notin DOMAIN evaluation.returned
                 /\ "overall_assessment" \notin DOMAIN evaluation.returned
                 /\ "overall_score" \notin DOMAIN evaluation.returned

\* the model's output was unparseable for an evaluation with a plan, and the
\* result is the error result
C21_Witness ==
    /\ evaluation # None
    /\ evaluation.interview_plan # None
    /\ evaluation.outcome.kind = "unparseable"
    /\ "error" \in DOMAIN evaluation.returned
    /\ evaluation.returned.evaluation_metadata.processing_time_ms = 0

\* C22: the overall score of a result of evaluate_interview is the
\* arithmetic mean of the dimension ratings of that result.
C22_OverallScoreIsMeanOfRatings ==
    (/\ evaluation # None
     /\ "error" \notin DOMAIN evaluation.returned
     /\ "overall_assessment" \in DOMAIN evaluation.returned)
    => LET ratings == evaluation.returned.dimension_evaluations
       IN 2 * evaluation.returned.overall_assessment.overall_score =
             ratings.problem_solving.rating + ratings.communication.rating

\* C23: conduct_interview_turn raises nothing to its caller; when its model
\* call raises, the output is unparseable, the signal tracking fails or the
\* plan carries no execution guidance, it returns the fallback result: a
\* non-empty response_text, an error field, latency_ms = 0 and the
\* interview_stage passed in as interview_state.current_stage.
C23_InterviewTurnNeverRaises ==
    interview_turn # None =>
        /\ "raised" \notin DOMAIN interview_turn.returned
        /\ (\/ interview_turn.outcome \in {"raise", "unparseable"}
            \/ interview_turn.signal_outcome \in {"raise", "unparseable"}
            \/ interview_turn.interview_plan \in
                  {None, [selected_archetype |-> "CASE_STUDY"],
                   [during_interview_execution |-> ""]})
           => /\ "response_text" \in DOMAIN interview_turn.returned
              /\ interview_turn.returned.response_text # ""
              /\ "error" \in DOMAIN interview_turn.returned
              /\ interview_turn.returned.latency_ms = 0
              /\ interview_turn.returned.interview_state.current_stage =
                    interview_turn.interview_stage

\* a call of add_conversation_turn returns True in this step
TurnAdded ==
    /\ tracker_clock' = tracker_clock + 1
    /\ tracker_result' = [op |-> "add_conversation_turn", returned |-> TRUE]

\* C26: the stored conversation_history of the SessionTracker has at most
\* 20 entries, which are the turns added last in the order they were
\* added; a successful add_conversation_turn on a history shorter than 20
\* lengthens it by one, puts the new turn last and stores the session with
\* a TTL of one hour.
C26_TrackerKeepsLastTurns ==
    [][/\ tracker' # None =>
            LET history == tracker'.conversation_history
            IN /\ Len(history) <= 20
               /\ Len(history) = Min(tracker_clock', 20)
               /\ \A i \in 1..Len(history) :
                     history[i].timestamp = tracker_clock' - Len(history) + (i - 1)
       /\ TurnAdded =>
            /\ tracker # None
            /\ tracker' # None
            /\ Len(tracker.conversation_history) < 20 =>
                  Len(tracker'.conversation_history) =
                     Len(tracker.conversation_history) + 1
            /\ tracker'.conversation_history[Len(tracker'.conversation_history)].timestamp
                  = tracker_clock
            /\ tracker_ttl' = 3600]_vars

\* the twenty-second turn was added: the two oldest turns are gone and the
\* TTL is one hour
C26_Witness ==
    /\ tracker # None
    /\ tracker_clock = 22
    /\ Len(tracker.conversation_history) = 20
    /\ tracker.conversation_history[1].timestamp = 2
    /\ tracker_ttl = 3600
    /\ tracker_result = [op |-> "add_conversation_turn", returned |-> TRUE]

====
